---- MODULE Spec2Model ----
(***************************************************************************)
(* csvwmetadata: the property store of the CSVW metadata nodes (Table,     *)
(* Schema, Column), its attribute view (__setattr__) and key view          *)
(* (__setitem__), the typed setters, the builder methods, the context     *)
(* value and the serialization of a node (write).                          *)
(*                                                                         *)
(* A Python string is a sequence of tokens: the separator characters       *)
(* "_" ":" "/" "#" "@" "?" are tokens of their own, and a maximal run of   *)
(* other characters (letters, digits, ".") is one word token, so that      *)
(* "dcterms_title" is <<"dcterms", "_", "title">>.                         *)
(***************************************************************************)
EXTENDS Naturals, Sequences, FiniteSets, TLC

VARIABLES
    root,   \* the node the program holds (a Table, a Schema or a Column)
    last,   \* the last operation: what was called, on what, and how it ended
    steps   \* operations made so far

vars == <<root, last, steps>>

\* ------------------------------------------------------------------ bounds

MaxWrites == 3      \* operations of one behaviour of Spec
MaxSteps == 4       \* operations of one behaviour of SpecTree

\* ------------------------------------------------------------ Python values

\* Every value has the same shape: kind, s (the tokens of a str), items (the
\* elements of a list), data (the entries of a dict or of a node's store) and
\* attrs (a node's instance attributes other than data).
Val(kind, s, items, data, attrs) ==
    [kind |-> kind, s |-> s, items |-> items, data |-> data, attrs |-> attrs]

NoneV == Val("None", <<>>, <<>>, <<>>, <<>>)
Str(s) == Val("str", s, <<>>, <<>>, <<>>)
List(items) == Val("list", <<>>, items, <<>>, <<>>)
Dict(data) == Val("dict", <<>>, <<>>, data, <<>>)
Obj(kind) == Val(kind, <<>>, <<>>, <<>>, <<>>)

W(w) == Str(<<w>>)

Kinds == {"Table", "Schema", "Column"}

IsNode(v) == v.kind \in Kinds

\* bool(value): None, "", [], {} and a node with an empty store are false.
Truthy(v) ==
    CASE v.kind = "None" -> FALSE
      [] v.kind = "str" -> Len(v.s) > 0
      [] v.kind = "list" -> Len(v.items) > 0
      [] v.kind = "Context" -> TRUE
      [] OTHER -> Len(v.data) > 0

\* ------------------------------------------------------- the dict of a store

Entry(k, v) == [k |-> k, v |-> v]

Has(d, k) == \E i \in 1..Len(d) : d[i].k = k

Get(d, k) == d[CHOOSE i \in 1..Len(d) : d[i].k = k].v

\* dict.get(k): None when the key is absent
GetOrNone(d, k) == IF Has(d, k) THEN Get(d, k) ELSE NoneV

\* d[k] = v: an existing key keeps its place, a new key goes last
Put(d, k, v) ==
    IF Has(d, k)
    THEN [i \in 1..Len(d) |-> IF d[i].k = k THEN Entry(k, v) ELSE d[i]]
    ELSE Append(d, Entry(k, v))

Keys(d) == {d[i].k : i \in 1..Len(d)}

\* ---------------------------------------------------------------- strings

Range(seq) == {seq[i] : i \in 1..Len(seq)}

\* str.find(tok) + 1: the first place of a token, 0 when there is none
Find(s, tok) ==
    IF \E i \in 1..Len(s) : s[i] = tok
    THEN CHOOSE i \in 1..Len(s) : s[i] = tok /\ \A j \in 1..(i - 1) : s[j] # tok
    ELSE 0

Separators == {"_", ":", "/", "#", "@", "?"}

_PREFIXES ==
    {"as", "cc", "csvw", "ctag", "dc", "dc11", "dcat", "dcterms", "dctypes",
     "dqv", "duv", "foaf", "gr", "grddl", "ical", "ldp", "ma", "oa", "og",
     "org", "owl", "prov", "qb", "rdf", "rdfa", "rdfs", "rev", "rif", "rr",
     "schema", "sd", "sioc", "skos", "skosxl", "v", "vcard", "void", "wdr",
     "wrds", "xhv", "xsd"}

\* urlparse(uri).netloc is not empty: after an optional scheme (the tokens
\* before the first ":", all of them scheme characters) the rest begins with
\* "//" and a character other than "/", "?", "#" follows.
UrlRest(uri) ==
    LET i == Find(uri, ":")
    IN  IF i > 1 /\ \A j \in 1..(i - 1) : uri[j] \notin Separators
        THEN SubSeq(uri, i + 1, Len(uri))
        ELSE uri

is_absolute_uri(uri) ==
    LET rest == UrlRest(uri)
    IN  /\ Len(rest) >= 3
        /\ rest[1] = "/"
        /\ rest[2] = "/"
        /\ rest[3] \notin {"/", "?", "#"}

prefixer(key) == [i \in 1..Len(key) |-> IF key[i] = "_" THEN ":" ELSE key[i]]

unprefixer(key) == [i \in 1..Len(key) |-> IF key[i] = ":" THEN "_" ELSE key[i]]

\* key.split(":")[0]
SplitHead(key) ==
    LET i == Find(key, ":")
    IN  IF i = 0 THEN key ELSE SubSeq(key, 1, i - 1)

is_valid_prefix(key) ==
    LET head == SplitHead(key)
    IN  Len(head) = 1 /\ head[1] \in _PREFIXES

\* ------------------------------------------------------------ class tables

_inherited_properties ==
    <<"aboutUrl", "datatype", "default", "lang", "null", "ordered",
      "propertyUrl", "required", "separator", "textDirection", "valueUrl">>

_common_properties(kind) ==
    CASE kind = "Table" ->
            <<"url", "notes", "dialect", "suppressOutput", "tableDirection",
              "tableSchema", "transformations", "id", "type">>
      [] kind = "Schema" ->
            <<"name", "columns", "foreignKeys", "primaryKey", "rowTitles",
              "id", "type">>
      [] kind = "Column" ->
            <<"name", "suppressOutput", "titles", "virtual", "id", "type">>

_valid_properties(kind) == _inherited_properties \o _common_properties(kind)

\* name in list, for a list of words
InList(name, list) == Len(name) = 1 /\ name[1] \in Range(list)

\* The names a class defines as properties (with a getter and a setter).
Properties(kind) ==
    Range(_inherited_properties) \cup
    CASE kind = "Table" ->
            {"context", "url", "dialect", "notes", "suppressOutput",
             "tableDirection", "tableSchema", "id", "type"}
      [] kind = "Schema" ->
            {"context", "columns", "foreignKeys", "primaryKey", "rowTitles"}
      [] kind = "Column" ->
            {"name", "suppressOutput", "titles", "virtual"}

HasProperty(kind, name) == Len(name) = 1 /\ name[1] \in Properties(kind)

\* ------------------------------------------------------------ results

\* What a call leaves behind: the node as the call left it, and whether the
\* call raised. A write made before the raise stays in node.
Ok(node) == [node |-> node, raised |-> FALSE]

Raise(node) == [node |-> node, raised |-> TRUE]

\* F(e), with e evaluated once: a LET definition is evaluated at each of its
\* uses, a bound variable holds a value.
With(e, F(_)) == CHOOSE y \in {F(x) : x \in {e}} : TRUE

RECURSIVE SetAttr(_, _, _)
RECURSIVE Construct(_, _)
RECURSIVE SetAll(_, _)

\* ------------------------------------------------------------ Context

CsvwNs == <<"http", ":", "/", "/", "www.w3.org", "/", "ns", "/", "csvw">>

\* A Context that takes every base and language other than None as given.
Context_NotNone(base, language) ==
    LET opts0 == <<>>
        opts1 == IF base # NoneV THEN Put(opts0, <<"@", "base">>, base) ELSE opts0
        opts2 == IF language # NoneV
                 THEN Put(opts1, <<"@", "language">>, language)
                 ELSE opts1
        context == IF base = NoneV /\ language = NoneV
                   THEN Str(CsvwNs)
                   ELSE List(<<Str(CsvwNs), Dict(opts2)>>)
    IN  Val("Context", <<>>, <<context>>, <<>>, <<>>)

\* Context.__init__(base, language)
Context(base, language) ==
    LET opts0 == <<>>
        opts1 == IF Truthy(base) THEN Put(opts0, <<"@", "base">>, base) ELSE opts0
        opts2 == IF Truthy(language)
                 THEN Put(opts1, <<"@", "language">>, language)
                 ELSE opts1
        context == IF ~(Truthy(base) \/ Truthy(language))
                   THEN Str(CsvwNs)
                   ELSE List(<<Str(CsvwNs), Dict(opts2)>>)
    IN  Val("Context", <<>>, <<context>>, <<>>, <<>>)

\* Context(**value) for a dict value: a keyword other than base and language
\* is a TypeError.
ContextFromDict(value) ==
    IF Keys(value.data) \subseteq {<<"base">>, <<"language">>}
    THEN Ok(Context(GetOrNone(value.data, <<"base">>),
                    GetOrNone(value.data, <<"language">>)))
    ELSE Raise(NoneV)

\* ------------------------------------------------------------ setters

\* A setter that only stores: self.data[key] = value
plain_setter(node, key, value) ==
    Ok([node EXCEPT !.data = Put(@, key, value)])

\* TopLevelProperty.context setter
context_setter(node, value) ==
    LET made == IF value.kind = "dict" THEN ContextFromDict(value) ELSE Ok(value)
    IN  IF made.raised \/ made.node.kind # "Context"
        THEN Raise(node)
        ELSE Ok([node EXCEPT !.data = Put(@, <<"@", "context">>, made.node)])

\* Table.notes setter
notes_setter(node, value) ==
    IF value.kind # "list"
    THEN Raise(node)
    ELSE Ok([node EXCEPT !.data = Put(@, <<"notes">>, value)])

\* Table.tableDirection setter with "auto" missing from its list
tableDirection_setter_NoAuto(node, value) ==
    IF value \notin {W("rtl"), W("ltr")}
    THEN Raise(node)
    ELSE Ok([node EXCEPT !.data = Put(@, <<"tableDirection">>, value)])

\* Table.tableDirection setter
tableDirection_setter(node, value) ==
    IF value \notin {W("rtl"), W("ltr"), W("auto")}
    THEN Raise(node)
    ELSE Ok([node EXCEPT !.data = Put(@, <<"tableDirection">>, value)])

\* Table.tableSchema setter
tableSchema_setter(node, value) ==
    With(IF value.kind = "dict" THEN Construct("Schema", value.data) ELSE Ok(value),
         LAMBDA made :
            IF made.raised \/ made.node.kind # "Schema"
            THEN Raise(node)
            ELSE Ok([node EXCEPT !.data = Put(@, <<"tableSchema">>, made.node)]))

\* Table.id setter
id_setter(node, value) ==
    Ok([node EXCEPT !.data = Put(@, <<"@", "id">>, value)])

\* Table.type setter
type_setter(node, value) ==
    IF value # W("Table")
    THEN Raise(node)
    ELSE Ok([node EXCEPT !.data = Put(@, <<"@", "type">>, value)])

\* x.get("name") for the entries x of a columns list that have a name
ColumnNames(cols) ==
    LET named == SelectSeq(cols, LAMBDA x : GetOrNone(x.data, <<"name">>) # NoneV)
    IN  [i \in 1..Len(named) |-> Get(named[i].data, <<"name">>)]

\* len(names) > len(set(names))
HasDuplicates(names) == Len(names) > Cardinality(Range(names))

\* Every entry of the list has a get method (a node or a dict).
AllMappings(cols) == \A i \in 1..Len(cols) : IsNode(cols[i]) \/ cols[i].kind = "dict"

\* Schema.columns setter. The names are read from self.columns, that is from
\* the store.
columns_setter(node, value) ==
    LET held == GetOrNone(node.data, <<"columns">>)
    IN  IF value.kind # "list"
        THEN Raise(node)
        ELSE IF held.kind # "list" \/ ~AllMappings(held.items)
        THEN Raise(node)
        ELSE IF HasDuplicates(ColumnNames(held.items))
        THEN Raise(node)
        ELSE Ok([node EXCEPT !.data = Put(@, <<"columns">>, value)])

\* Column.name setter without its check
name_setter_NoCheck(node, value) ==
    Ok([node EXCEPT !.data = Put(@, <<"name">>, value)])

\* Column.name setter: value[0] == "_"
name_setter(node, value) ==
    IF value.kind = "str" /\ Len(value.s) > 0
    THEN IF value.s[1] = "_"
         THEN Raise(node)
         ELSE Ok([node EXCEPT !.data = Put(@, <<"name">>, value)])
    ELSE IF value.kind = "list" /\ Len(value.items) > 0
    THEN Ok([node EXCEPT !.data = Put(@, <<"name">>, value)])
    ELSE Raise(node)

\* The setter of property name of the node's class.
PropertySet(node, name, value) ==
    LET p == name[1]
    IN  CASE p = "context" -> context_setter(node, value)
          [] p = "notes" -> notes_setter(node, value)
          [] p = "tableDirection" -> tableDirection_setter(node, value)
          [] p = "tableSchema" -> tableSchema_setter(node, value)
          [] p = "id" -> id_setter(node, value)
          [] p = "type" -> type_setter(node, value)
          [] p = "columns" -> columns_setter(node, value)
          [] p = "name" -> name_setter(node, value)
          [] OTHER -> plain_setter(node, name, value)

\* object.__setattr__(self, name, value): the class's property setter when
\* there is one, the instance attribute otherwise.
ObjectSetattr(node, name, value) ==
    IF HasProperty(node.kind, name)
    THEN PropertySet(node, name, value)
    ELSE Ok([node EXCEPT !.attrs = Put(@, name, value)])

\* ------------------------------------------------------------ the two views

ReservedNames == {<<"id">>, <<"type">>, <<"context">>}

\* CommonProperties.__setattr__ accepting a registered prefix only
SetAttr_PrefixOnly(node, name, value) ==
    IF name = <<"data">>
    THEN Ok([node EXCEPT !.data = value.data])
    ELSE IF name \in ReservedNames
    THEN LET attr == <<"@">> \o name
         IN  ObjectSetattr([node EXCEPT !.data = Put(@, attr, value)], name, value)
    ELSE IF ~InList(name, _valid_properties(node.kind))
    THEN LET attr == prefixer(name)
         IN  IF is_valid_prefix(attr)
             THEN ObjectSetattr([node EXCEPT !.data = Put(@, attr, value)], name, value)
             ELSE Raise(node)
    ELSE ObjectSetattr([node EXCEPT !.data = Put(@, name, value)], name, value)

\* A __setattr__ that leaves the store of an allow-listed name to the setter:
\* the setter sees the value held before the write.
SetAttr_SetterFirst(node, name, value) ==
    IF name = <<"data">>
    THEN Ok([node EXCEPT !.data = value.data])
    ELSE IF name \in ReservedNames
    THEN LET attr == <<"@">> \o name
         IN  ObjectSetattr([node EXCEPT !.data = Put(@, attr, value)], name, value)
    ELSE IF ~InList(name, _valid_properties(node.kind))
    THEN LET attr == prefixer(name)
         IN  IF is_valid_prefix(attr) \/ is_absolute_uri(attr)
             THEN ObjectSetattr([node EXCEPT !.data = Put(@, attr, value)], name, value)
             ELSE Raise(node)
    ELSE ObjectSetattr(node, name, value)

\* CommonProperties.__setattr__
SetAttr(node, name, value) ==
    IF name = <<"data">>
    THEN Ok([node EXCEPT !.data = value.data])
    ELSE IF name \in ReservedNames
    THEN LET attr == <<"@">> \o name
         IN  ObjectSetattr([node EXCEPT !.data = Put(@, attr, value)], name, value)
    ELSE IF ~InList(name, _valid_properties(node.kind))
    THEN LET attr == prefixer(name)
         IN  IF is_valid_prefix(attr) \/ is_absolute_uri(attr)
             THEN ObjectSetattr([node EXCEPT !.data = Put(@, attr, value)], name, value)
             ELSE Raise(node)
    ELSE ObjectSetattr([node EXCEPT !.data = Put(@, name, value)], name, value)

\* The attribute name __setitem__ passes to setattr.
ItemAttr(kind, key) ==
    IF ~InList(key, _valid_properties(kind))
    THEN IF ~is_absolute_uri(key) THEN unprefixer(key) ELSE key
    ELSE key

\* CommonProperties.__setitem__
SetItem(node, key, item) ==
    With(SetAttr(node, ItemAttr(node.kind, key), item),
         LAMBDA r :
            IF r.raised
            THEN r
            ELSE Ok([r.node EXCEPT !.data = Put(@, key, item)]))

\* The store key a property getter reads.
GetterKey(kind, name) ==
    CASE name \in ReservedNames -> <<"@">> \o name
      [] kind = "Schema" /\ name = <<"foreignKeys">> -> <<"columns">>
      [] OTHER -> name

\* getattr(node, name): the property getter when the class has one (a
\* KeyError when the store lacks its key), the instance attribute otherwise
\* (an AttributeError when there is none).
GetAttr(node, name) ==
    IF HasProperty(node.kind, name)
    THEN IF Has(node.data, GetterKey(node.kind, name))
         THEN Ok(Get(node.data, GetterKey(node.kind, name)))
         ELSE Raise(NoneV)
    ELSE IF Has(node.attrs, name)
    THEN Ok(Get(node.attrs, name))
    ELSE Raise(NoneV)

\* node[key]
GetItem(node, key) ==
    IF Has(node.data, key) THEN Ok(Get(node.data, key)) ELSE Raise(NoneV)

\* ------------------------------------------------------------ constructors

\* The declared keyword parameters of __init__, in the order of locals().
InitParams(kind) ==
    CASE kind = "Table" ->
            <<"url", "dialect", "suppressOutput", "tableDirection",
              "tableSchema", "transformations", "id", "type">>
      [] kind = "Schema" ->
            <<"name", "columns", "foreignKeys", "primaryKey", "rowTitles",
              "id", "type">>
      [] kind = "Column" ->
            <<"name", "suppressOutput", "titles", "virtual", "id", "type">>

\* An __init__ that sets its fields in the order of the call.
InitOrder_AsCalled(kind, fields) == SelectSeq(fields, LAMBDA e : e.v # NoneV)

\* The fields of a call in the order __init__ sets them: the declared
\* parameters in the order of their declaration, then **kwargs in the order
\* of the call; a None value is skipped.
InitOrder(kind, fields) ==
    LET params == InitParams(kind)
        given == SelectSeq(params, LAMBDA p : Has(fields, <<p>>))
        declared == [i \in 1..Len(given) |-> Entry(<<given[i]>>, Get(fields, <<given[i]>>))]
        kwargs == SelectSeq(fields, LAMBDA e : ~InList(e.k, params))
    IN  SelectSeq(declared \o kwargs, LAMBDA e : e.v # NoneV)

\* setattr(self, attr, value) for each field in turn, up to the first raise
SetAll(r, fields) ==
    IF r.raised \/ fields = <<>>
    THEN r
    ELSE With(SetAttr(r.node, Head(fields).k, Head(fields).v),
              LAMBDA r2 : SetAll(r2, Tail(fields)))

\* Table(**fields), Schema(**fields), Column(**fields). Table's url is a
\* required parameter: a call without it is a TypeError.
Construct(kind, fields) ==
    IF kind = "Table" /\ ~Has(fields, <<"url">>)
    THEN Raise(NoneV)
    ELSE With(SetAll(Ok(Obj(kind)), InitOrder(kind, fields)),
              LAMBDA r : IF r.raised THEN Raise(NoneV) ELSE r)

\* ------------------------------------------------------------ builders

\* TopLevelProperty.add_context
add_context(node, base, language) ==
    SetAttr(node, <<"context">>, Context(base, language))

\* The rest of Schema.add_column, once self.columns holds a value: r1 is the
\* schema after `if not self.get("columns"): self.columns = []`.
AppendColumn(r1, kwargs) ==
    LET cols == GetOrNone(r1.node.data, <<"columns">>)
    IN  IF r1.raised
        THEN r1
        ELSE IF cols.kind # "list" \/ ~AllMappings(cols.items)
        THEN Raise(r1.node)
        ELSE IF HasDuplicates(ColumnNames(cols.items) \o <<GetOrNone(kwargs, <<"name">>)>>)
        THEN Raise(r1.node)
        ELSE With(Construct("Column", kwargs),
                  LAMBDA c :
                     IF c.raised
                     THEN Raise(r1.node)
                     ELSE Ok([r1.node EXCEPT !.data =
                                Put(@, <<"columns">>, List(Append(cols.items, c.node)))]))

\* Schema.add_column(**kwargs)
Schema_add_column(node, kwargs) ==
    With(IF ~Truthy(GetOrNone(node.data, <<"columns">>))
         THEN SetAttr(node, <<"columns">>, List(<<>>))
         ELSE Ok(node),
         LAMBDA r1 : AppendColumn(r1, kwargs))

\* Table.add_schema(**kwargs)
Table_add_schema(node, kwargs) ==
    IF ~Truthy(GetOrNone(node.data, <<"tableSchema">>))
    THEN With(Construct("Schema", kwargs),
              LAMBDA s : IF s.raised
                         THEN Raise(node)
                         ELSE SetAttr(node, <<"tableSchema">>, s.node))
    ELSE Raise(node)

\* The rest of Table.add_column: self.tableSchema.add_column(**kwargs) on the
\* table r1 that `if not self.get("tableSchema"): self.add_schema()` left. The
\* call changes the schema the store holds, also when it raises.
DelegateAddColumn(r1, kwargs) ==
    LET schema == GetOrNone(r1.node.data, <<"tableSchema">>)
    IN  IF r1.raised
        THEN r1
        ELSE IF schema.kind # "Schema"
        THEN Raise(r1.node)
        ELSE With(Schema_add_column(schema, kwargs),
                  LAMBDA r2 :
                     [node |-> [r1.node EXCEPT !.data = Put(@, <<"tableSchema">>, r2.node)],
                      raised |-> r2.raised])

\* `if not self.get("tableSchema")`: Table.add_column makes a schema of its own.
CreatesSchema(node) == ~Truthy(GetOrNone(node.data, <<"tableSchema">>))

\* Table.add_column(**kwargs)
Table_add_column(node, kwargs) ==
    With(IF CreatesSchema(node)
         THEN Table_add_schema(node, <<>>)
         ELSE Ok(node),
         LAMBDA r1 : DelegateAddColumn(r1, kwargs))

\* ------------------------------------------------------------ serialization

\* default=lambda x: vars(x)["data"]: what json.dumps encodes in place of an
\* object that is no str, list or dict: the store of a node, the value of a
\* Context.
json_default(x) == IF x.kind = "Context" THEN x.items[1] ELSE Dict(x.data)

\* "\n" and the indentation of nesting depth d (indent=4)
RECURSIVE Newline(_)
Newline(d) == IF d = 0 THEN <<"\n">> ELSE Newline(d - 1) \o <<"    ">>

\* json.dumps(v, default=..., indent=4) at nesting depth d, as tokens: a dict
\* lists its entries in the order of the dict.
RECURSIVE dumps(_, _), dumpsItems(_, _, _), dumpsEntries(_, _, _)
dumps(v, d) ==
    CASE v.kind = "None" -> <<"null">>
      [] v.kind = "str" -> <<"\"">> \o v.s \o <<"\"">>
      [] v.kind = "list" ->
            IF Len(v.items) = 0
            THEN <<"[]">>
            ELSE <<"[">> \o dumpsItems(v.items, 1, d + 1) \o Newline(d) \o <<"]">>
      [] v.kind = "dict" ->
            IF Len(v.data) = 0
            THEN <<"{}">>
            ELSE <<"{">> \o dumpsEntries(v.data, 1, d + 1) \o Newline(d) \o <<"}">>
      [] OTHER -> dumps(json_default(v), d)

dumpsItems(items, i, d) ==
    IF i > Len(items)
    THEN <<>>
    ELSE (IF i > 1 THEN <<",">> ELSE <<>>)
         \o Newline(d) \o dumps(items[i], d)
         \o dumpsItems(items, i + 1, d)

dumpsEntries(data, i, d) ==
    IF i > Len(data)
    THEN <<>>
    ELSE (IF i > 1 THEN <<",">> ELSE <<>>)
         \o Newline(d) \o <<"\"">> \o data[i].k \o <<"\"", ": ">> \o dumps(data[i].v, d)
         \o dumpsEntries(data, i + 1, d)

\* A write that empties the store it has serialized.
write_Draining(node) ==
    [node |-> [node EXCEPT !.data = <<>>], raised |-> FALSE,
     text |-> dumps(Dict(node.data), 0)]

\* TopLevelProperty.write(filename): the text written to the file, and the
\* node after the call.
write(node) ==
    [node |-> node, raised |-> FALSE, text |-> dumps(Dict(node.data), 0)]

\* The keys of the serialized document of a node, in the order of the text.
RECURSIVE DocKeys(_)
DocKeys(v) ==
    IF v.kind = "dict"
    THEN [i \in 1..Len(v.data) |-> v.data[i].k]
    ELSE DocKeys(json_default(v))

\* ------------------------------------------------------------ inputs

Field(w, v) == Entry(<<w>>, v)

\* The names written through the two views.
Names ==
    {<<"dcterms", "_", "title">>, <<"dcterms", ":", "title">>,
     <<"madeup", "_", "example">>, <<"#", "relative">>,
     <<"http", ":", "/", "/", "example.co.uk">>,
     <<"madeup", "_", "/", "/", "host">>,
     <<"id">>, <<"@", "id">>, <<"type">>, <<"@", "type">>,
     <<"context">>, <<"@", "context">>,
     <<"tableDirection">>, <<"foreignKeys">>, <<"name">>}

Directions == {W("ltr"), W("rtl"), W("auto"), W("sideways")}

ColumnNameValues == {W("a"), W("b"), Str(<<"_", "x">>)}

\* The values written under a name.
ValuesFor(name) ==
    CASE name = <<"tableDirection">> -> Directions
      [] name \in {<<"type">>, <<"@", "type">>} -> {W("Table"), W("Other")}
      [] name \in {<<"context">>, <<"@", "context">>} -> {Context(NoneV, NoneV), W("bad")}
      [] name = <<"name">> -> {W("a"), Str(<<"_", "x">>)}
      [] name = <<"foreignKeys">> -> {List(<<W("fk")>>)}
      [] name \in {<<"dcterms", "_", "title">>, <<"dcterms", ":", "title">>, <<"id">>} ->
            {W("v1"), W("v2")}
      [] OTHER -> {W("v1")}

\* The constructor calls of Spec.
NewFields(kind) ==
    CASE kind = "Table" ->
            {<<Field("url", W("u")), Field("tableDirection", d)>> : d \in Directions}
            \cup {<<Entry(<<"dcterms", "_", "title">>, W("v1")), Field("url", W("u"))>>}
            \cup {<<Field("context", Context(NoneV, NoneV)), Field("url", W("u")),
                     Entry(<<"dcterms", "_", "title">>, W("v1"))>>}
      [] kind = "Schema" -> {<<>>, <<Field("id", W("v1"))>>}
      [] kind = "Column" -> {<<Field("name", n)>> : n \in ColumnNameValues}

\* The fields of add_column and of Column(...).
ColumnFields ==
    {<<>>}
    \cup {<<Field("name", n)>> : n \in ColumnNameValues}
    \cup {<<Field("name", Str(<<"_", "x">>)), Field("titles", W("T"))>>}

\* The arguments of add_context.
Bases == {NoneV, Str(<<>>), Str(<<"http", ":", "/", "/", "example.org">>)}

Languages == {NoneV, Str(<<>>), W("en")}

SchemaFields == {<<>>, <<Field("id", Str(<<"#", "s">>))>>}

Col(n) == Construct("Column", <<Field("name", n)>>).node

\* The values assigned to Schema.columns.
ColumnsValues ==
    {List(<<Col(W("a"))>>), List(<<Col(W("a")), Col(W("b"))>>),
     List(<<Col(W("a")), Col(W("a"))>>), W("zz"),
     List(<<Construct("Column", <<>>).node, Construct("Column", <<>>).node>>)}

\* The values assigned to Table.tableSchema.
TableSchemaValues ==
    {Construct("Schema", <<>>).node,
     Construct("Schema", <<Field("id", Str(<<"#", "s">>))>>).node,
     Dict(<<Field("name", W("n"))>>),
     W("bad")}

\* ------------------------------------------------------------ state

Op(op, kind, name, value, idx, raised, before, after) ==
    [op |-> op, kind |-> kind, name |-> name, value |-> value, idx |-> idx,
     raised |-> raised, before |-> before, after |-> after, ret |-> NoneV]

\* `return self` at the end of a builder method: the call returns the node,
\* and returns nothing when it raises.
ReturnSelf(o) == [o EXCEPT !.ret = IF o.raised THEN NoneV ELSE o.after]

NoOp == Op("init", "", <<>>, NoneV, 0, FALSE, NoneV, NoneV)

Init ==
    /\ root \in {Construct("Table", <<Field("url", W("u"))>>).node,
                 Construct("Schema", <<>>).node,
                 Construct("Column", <<>>).node}
    /\ last = NoOp
    /\ steps = 0

InitTree ==
    /\ root \in {Construct("Table", <<Field("url", W("u"))>>).node,
                 Construct("Schema", <<>>).node}
    /\ last = NoOp
    /\ steps = 0

\* ------------------------------------------------------------ actions of Spec

\* setattr(root, name, value)
SetAttribute ==
    /\ steps < MaxWrites
    /\ \E name \in Names : \E value \in ValuesFor(name) :
         \E r \in {SetAttr(root, name, value)} :
             /\ root' = r.node
             /\ last' = Op("setattr", root.kind, name, value, 0, r.raised, root, r.node)
    /\ steps' = steps + 1

\* root[key] = item
SetKey ==
    /\ steps < MaxWrites
    /\ \E key \in Names : \E item \in ValuesFor(key) :
         \E r \in {SetItem(root, key, item)} :
             /\ root' = r.node
             /\ last' = Op("setitem", root.kind, key, item, 0, r.raised, root, r.node)
    /\ steps' = steps + 1

\* root = Table(...), Schema(...) or Column(...): a call that raises makes no
\* node, and the program keeps the one it had.
NewNode ==
    /\ steps < MaxWrites
    /\ \E kind \in Kinds : \E fields \in NewFields(kind) :
         \E r \in {Construct(kind, fields)} :
             /\ root' = IF r.raised THEN root ELSE r.node
             /\ last' = Op("new", kind, <<>>, Dict(fields), 0, r.raised, NoneV, r.node)
    /\ steps' = steps + 1

Next == SetAttribute \/ SetKey \/ NewNode

Spec == Init /\ [][Next]_vars

\* -------------------------------------------------------- actions of SpecTree

\* The schema the program reaches: the root, or the root table's tableSchema.
HasSchema(node) ==
    \/ node.kind = "Schema"
    \/ node.kind = "Table" /\ GetOrNone(node.data, <<"tableSchema">>).kind = "Schema"

TheSchema(node) ==
    IF node.kind = "Schema" THEN node ELSE Get(node.data, <<"tableSchema">>)

\* The schema is changed in place: the table's store holds the same object.
WithSchema(node, schema) ==
    IF node.kind = "Schema"
    THEN schema
    ELSE [node EXCEPT !.data = Put(@, <<"tableSchema">>, schema)]

\* The columns list of a schema, empty when it holds none.
ColumnsOf(schema) ==
    LET cols == GetOrNone(schema.data, <<"columns">>)
    IN  IF cols.kind = "list" THEN cols.items ELSE <<>>

\* table.add_schema(**kwargs)
AddSchema ==
    /\ steps < MaxSteps
    /\ root.kind = "Table"
    /\ \E kwargs \in SchemaFields :
         \E r \in {Table_add_schema(root, kwargs)} :
             /\ root' = r.node
             /\ last' = ReturnSelf(Op("add_schema", "Table", <<>>, Dict(kwargs), 0,
                                      r.raised, root, r.node))
    /\ steps' = steps + 1

\* table.add_column(**kwargs)
TableAddColumn ==
    /\ steps < MaxSteps
    /\ root.kind = "Table"
    /\ \E kwargs \in ColumnFields :
         \E r \in {Table_add_column(root, kwargs)} :
             /\ root' = r.node
             /\ last' = ReturnSelf(Op("add_column", "Table", <<>>, Dict(kwargs), 0,
                                      r.raised, root, r.node))
    /\ steps' = steps + 1

\* schema.add_column(**kwargs)
SchemaAddColumn ==
    /\ steps < MaxSteps
    /\ HasSchema(root)
    /\ \E kwargs \in ColumnFields :
         \E r \in {Schema_add_column(TheSchema(root), kwargs)} :
             /\ root' = WithSchema(root, r.node)
             /\ last' = ReturnSelf(Op("add_column", "Schema", <<>>, Dict(kwargs), 0,
                                      r.raised, TheSchema(root), r.node))
    /\ steps' = steps + 1

\* schema.columns = value
AssignColumns ==
    /\ steps < MaxSteps
    /\ HasSchema(root)
    /\ \E value \in ColumnsValues :
         \E r \in {SetAttr(TheSchema(root), <<"columns">>, value)} :
             /\ root' = WithSchema(root, r.node)
             /\ last' = Op("setattr", "Schema", <<"columns">>, value, 0, r.raised,
                           TheSchema(root), r.node)
    /\ steps' = steps + 1

\* schema.columns[i].name = value
RenameColumn ==
    /\ steps < MaxSteps
    /\ HasSchema(root)
    /\ \E i \in 1..Len(ColumnsOf(TheSchema(root))) : \E value \in ColumnNameValues :
         \E r \in {SetAttr(ColumnsOf(TheSchema(root))[i], <<"name">>, value)} :
         LET schema == TheSchema(root)
             cols == ColumnsOf(schema)
             after == [schema EXCEPT !.data =
                         Put(@, <<"columns">>, List([cols EXCEPT ![i] = r.node]))]
         IN  /\ root' = WithSchema(root, after)
             /\ last' = Op("rename", "Column", <<"name">>, value, i, r.raised, schema, after)
    /\ steps' = steps + 1

\* table.tableSchema = value
AssignTableSchema ==
    /\ steps < MaxSteps
    /\ root.kind = "Table"
    /\ \E value \in TableSchemaValues :
         \E r \in {SetAttr(root, <<"tableSchema">>, value)} :
             /\ root' = r.node
             /\ last' = Op("setattr", "Table", <<"tableSchema">>, value, 0, r.raised,
                           root, r.node)
    /\ steps' = steps + 1

\* Column(**kwargs), a column of its own
NewColumn ==
    /\ steps < MaxSteps
    /\ \E kwargs \in ColumnFields :
         \E r \in {Construct("Column", kwargs)} :
             last' = Op("new", "Column", <<>>, Dict(kwargs), 0, r.raised, NoneV, r.node)
    /\ root' = root
    /\ steps' = steps + 1

\* root.add_context(base, language)
AddContext ==
    /\ steps < MaxSteps
    /\ \E base \in Bases : \E language \in Languages :
         \E r \in {add_context(root, base, language)} :
             /\ root' = r.node
             /\ last' = ReturnSelf(Op("add_context", root.kind, <<>>,
                                      Dict(<<Field("base", base),
                                             Field("language", language)>>),
                                      0, r.raised, root, r.node))
    /\ steps' = steps + 1

\* root.write(filename)
Write ==
    /\ steps < MaxSteps
    /\ \E r \in {write(root)} :
         /\ root' = r.node
         /\ last' = Op("write", root.kind, <<>>, Str(r.text),
                       IF last.op = "write" THEN last.idx + 1 ELSE 1,
                       r.raised, root, r.node)
    /\ steps' = steps + 1

NextTree ==
    \/ AddSchema
    \/ TableAddColumn
    \/ SchemaAddColumn
    \/ AssignColumns
    \/ RenameColumn
    \/ AssignTableSchema
    \/ NewColumn
    \/ AddContext
    \/ Write

SpecTree == InitTree /\ [][NextTree]_vars

\* ------------------------------------------------------------ properties

ReservedKeys == {<<"@", "id">>, <<"@", "type">>, <<"@", "context">>}

IsWrite == last.op \in {"setattr", "setitem"}

\* The name a write hands to __setattr__: the name itself in the attribute
\* view, the attribute name of the key in the key view.
WrittenAttr == IF last.op = "setitem" THEN ItemAttr(last.kind, last.name) ELSE last.name

\* The store key of the property an attribute name denotes.
CanonicalKey(kind, name) ==
    IF name \in ReservedNames THEN <<"@">> \o name
    ELSE IF InList(name, _valid_properties(kind)) THEN name
    ELSE prefixer(name)

\* A key of the form prefix:name with a registered prefix.
IsPrefixedKey(k) == Find(k, ":") > 1 /\ is_valid_prefix(k)

ValidKey(kind, k) ==
    \/ k \in ReservedKeys
    \/ InList(k, _valid_properties(kind))
    \/ IsPrefixedKey(k)
    \/ is_absolute_uri(k)

\* C1: every key of the node's store is @id, @type or @context, a member of
\* the kind's allow-list, a key prefix:name with a registered prefix, or an
\* absolute identifier, after any sequence of writes through the two views.
C1_StoreKeysValid == \A k \in Keys(root.data) : ValidKey(root.kind, k)

\* C2: after an accepted write through the attribute view, the value written
\* is the value read back under the canonical key, and after an accepted write
\* through the key view it is the value read back through the attribute view.
C2_ViewEquivalence ==
    /\ (last.op = "setattr" /\ ~last.raised) =>
          GetItem(last.after, CanonicalKey(last.kind, last.name)) = Ok(last.value)
    /\ (last.op = "setitem" /\ ~last.raised) =>
          GetAttr(last.after, ItemAttr(last.kind, last.name)) = Ok(last.value)

\* The writes C3 is about: the name is neither reserved nor in the allow-list.
IsCommonWrite ==
    /\ IsWrite
    /\ last.name \notin ReservedNames \cup ReservedKeys
    /\ ~InList(last.name, _valid_properties(last.kind))

\* C3 (as amended): a write under a name that is neither reserved nor in the
\* kind's allow-list is accepted if and only if the prefix of the name's
\* canonical form ("_" mapped to ":") is registered or that canonical form is
\* an absolute identifier, and an accepted write is stored under the canonical
\* form; dcterms_title is accepted and stored as dcterms:title, madeup_example
\* and #relative are rejected, http://example.co.uk is accepted.
C3_NameAcceptance ==
    IsCommonWrite =>
        /\ ~last.raised <=> \/ is_valid_prefix(prefixer(last.name))
                            \/ is_absolute_uri(prefixer(last.name))
        /\ ~last.raised => GetItem(last.after, prefixer(last.name)) = Ok(last.value)
        /\ last.name = <<"dcterms", "_", "title">> =>
              /\ ~last.raised
              /\ GetItem(last.after, <<"dcterms", ":", "title">>) = Ok(last.value)
        /\ last.name \in {<<"madeup", "_", "example">>, <<"#", "relative">>} => last.raised
        /\ last.name = <<"http", ":", "/", "/", "example.co.uk">> => ~last.raised

\* C3 (as claimed): ... accepted if and only if the prefix is registered or the
\* name itself is an absolute identifier.
C3_NameAcceptanceOfName ==
    IsCommonWrite =>
        (~last.raised <=> \/ is_valid_prefix(prefixer(last.name))
                          \/ is_absolute_uri(last.name))

\* C3's case: a name that is absolute only in its canonical form is accepted
\* and stored under that form.
C3_Witness ==
    /\ last.op = "setattr"
    /\ last.name = <<"madeup", "_", "/", "/", "host">>
    /\ ~last.raised
    /\ Has(root.data, <<"madeup", ":", "/", "/", "host">>)

\* C4: a write that raises leaves the store as it was before the attempt.
C4_NoPartialChange ==
    (IsWrite /\ last.raised) => last.after.data = last.before.data

\* C5: add_schema on a table that owns a schema raises and keeps that schema.
C5_AddSchemaOnce ==
    (last.op = "add_schema" /\ HasSchema(last.before)) =>
        /\ last.raised
        /\ TheSchema(last.after) = TheSchema(last.before)

\* C6: no two entries of a schema's columns have the same name.
C6_UniqueColumnNames ==
    HasSchema(root) => ~HasDuplicates(ColumnNames(ColumnsOf(TheSchema(root))))

IsUnderscored(v) == v.kind = "str" /\ Len(v.s) > 0 /\ v.s[1] = "_"

\* The name field of the last call's keyword arguments.
LastNameField == GetOrNone(last.value.data, <<"name">>)

\* C7: Schema.add_column with the name of a column of the schema raises and
\* leaves the columns as they were; with a name not yet present (a name that
\* does not begin with an underscore) it appends one column of that name after
\* the earlier entries, which stay as they were.
C7_AddColumn ==
    ( /\ last.op = "add_column"
      /\ last.kind = "Schema"
      /\ LastNameField.kind = "str"
      /\ ~IsUnderscored(LastNameField)
      /\ GetOrNone(last.before.data, <<"columns">>).kind \in {"None", "list"} ) =>
        LET old == ColumnsOf(last.before)
            new == ColumnsOf(last.after)
        IN  IF LastNameField \in Range(ColumnNames(old))
            THEN last.raised /\ new = old
            ELSE /\ ~last.raised
                 /\ Len(new) = Len(old) + 1
                 /\ SubSeq(new, 1, Len(old)) = old
                 /\ new[Len(new)].kind = "Column"
                 /\ GetOrNone(new[Len(new)].data, <<"name">>) = LastNameField

\* The columns a node reaches: its own (a schema) or its schema's (a table).
ColumnsUnder(node) == IF HasSchema(node) THEN ColumnsOf(TheSchema(node)) ELSE <<>>

\* C8: a column name that begins with an underscore is rejected by Column(...),
\* by an assignment to a column's name and by Schema.add_column and
\* Table.add_column, whatever the other fields, and add_column appends nothing.
C8_UnderscoreRejected ==
    /\ (last.op = "new" /\ last.kind = "Column" /\ IsUnderscored(LastNameField)) =>
          last.raised
    /\ (last.op = "rename" /\ IsUnderscored(last.value)) => last.raised
    /\ (last.op = "add_column" /\ IsUnderscored(LastNameField)) =>
          /\ last.raised
          /\ ColumnsUnder(last.after) = ColumnsUnder(last.before)

\* C8's case: Table.add_column with an underscored name and another field, on a
\* table whose schema has a column, raised.
C8_Witness ==
    /\ last.op = "add_column"
    /\ last.kind = "Table"
    /\ IsUnderscored(LastNameField)
    /\ Has(last.value.data, <<"titles">>)
    /\ last.raised
    /\ Len(ColumnsUnder(root)) > 0

\* The tableDirection value of the last operation, None when it wrote none.
LastDirection ==
    IF IsWrite /\ last.name = <<"tableDirection">> THEN last.value
    ELSE IF last.op = "new" THEN GetOrNone(last.value.data, <<"tableDirection">>)
    ELSE NoneV

\* C9: a write of tableDirection on a Table, through the constructor, the
\* attribute view or the key view, is accepted if and only if the value is ltr,
\* rtl or auto, and an accepted value is the one stored.
C9_TableDirection ==
    (last.kind = "Table" /\ LastDirection # NoneV) =>
        /\ ~last.raised <=> LastDirection \in {W("ltr"), W("rtl"), W("auto")}
        /\ ~last.raised => GetItem(last.after, <<"tableDirection">>) = Ok(LastDirection)

\* C9's case: the key view rejected a value that is none of the three.
C9_Witness ==
    /\ last.op = "setitem"
    /\ last.kind = "Table"
    /\ last.name = <<"tableDirection">>
    /\ last.value = W("sideways")
    /\ last.raised

\* C10: an accepted write adds or updates the entry under the property's
\* canonical key and changes nothing else of the store.
C10_OneSlot ==
    (IsWrite /\ ~last.raised) =>
        LET k == CanonicalKey(last.kind, WrittenAttr)
        IN  /\ Has(last.after.data, k)
            /\ last.after.data = Put(last.before.data, k, Get(last.after.data, k))

\* The writes C11 is about: id, type or context through the attribute view,
\* @id, @type or @context through the key view.
IsReservedWrite ==
    \/ last.op = "setattr" /\ last.name \in ReservedNames
    \/ last.op = "setitem" /\ last.name \in ReservedKeys

\* The "@"-prefixed key of the last write's name.
LastReservedKey == IF last.op = "setattr" THEN <<"@">> \o last.name ELSE last.name

\* The typed setters of the reserved keys reject a value, not a name: a Table's
\* type other than "Table", a context that is neither a Context nor a dict.
RejectsValue(kind, key, value) ==
    \/ kind = "Table" /\ key = <<"@", "type">> /\ value # W("Table")
    \/ /\ kind \in {"Table", "Schema"}
       /\ key = <<"@", "context">>
       /\ value.kind \notin {"Context", "dict"}

\* C11: on every kind of node, a write named id, type or context through the
\* attribute view, or @id, @type or @context through the key view, is not
\* rejected for its name, and its value is the one read back under the
\* "@"-prefixed key.
C11_ReservedKeys ==
    IsReservedWrite =>
        /\ last.raised => RejectsValue(last.kind, LastReservedKey, last.value)
        /\ GetItem(last.after, LastReservedKey) = Ok(last.value)

IsPrefix(a, b) == Len(a) <= Len(b) /\ SubSeq(b, 1, Len(a)) = a

\* The keys after a key is written: a key already there keeps its place, a new
\* key goes last.
AppendNew(keys, k) == IF k \in Range(keys) THEN keys ELSE Append(keys, k)

\* The fields of the last constructor call, in the order of the call.
LastFields == last.value.data

\* The place of the i-th field of the last constructor call among the fields
\* the constructor sets: a declared parameter by its place in the declaration,
\* any other keyword after all of these, by its place in the call.
FieldRank(i) ==
    LET k == LastFields[i].k
        params == InitParams(last.kind)
    IN  IF InList(k, params) THEN Find(params, k[1]) ELSE Len(params) + i

\* The keys of the document are those of the last constructor call, the
\* declared parameters first.
DeclaredFirst(keys) ==
    /\ Len(keys) = Len(LastFields)
    /\ \A i \in 1..Len(LastFields) : CanonicalKey(last.kind, LastFields[i].k) \in Range(keys)
    /\ \A i, j \in 1..Len(LastFields) :
          FieldRank(i) < FieldRank(j) =>
              Find(keys, CanonicalKey(last.kind, LastFields[i].k))
                  < Find(keys, CanonicalKey(last.kind, LastFields[j].k))

\* C13 (as amended): the serialized document lists a node's keys in the order
\* the store received them: for a constructor call the declared parameters in
\* the order of their declaration and then the other keyword fields in the
\* order of the call, then the keys of later writes in the order made (a
\* key-view write gives the canonical key and then the key as given); no write
\* moves a key that is there, so @id, @type and @context are not moved to the
\* front and re-writing a key does not change its position.
C13_KeyOrder ==
    /\ (last.op = "new" /\ ~last.raised) => DeclaredFirst(DocKeys(last.after))
    /\ IsWrite => IsPrefix(DocKeys(last.before), DocKeys(last.after))
    /\ (last.op = "setattr" /\ ~last.raised) =>
          DocKeys(last.after)
              = AppendNew(DocKeys(last.before), CanonicalKey(last.kind, last.name))
    /\ (last.op = "setitem" /\ ~last.raised) =>
          DocKeys(last.after)
              = AppendNew(AppendNew(DocKeys(last.before),
                                    CanonicalKey(last.kind, WrittenAttr)),
                          last.name)

\* C13 (as claimed): the document lists the fields of a constructor call in
\* the order given, then later writes in the order made, and re-writing a key
\* does not change its position.
C13_KeyOrderAsCalled ==
    /\ (last.op = "new" /\ ~last.raised) =>
          DocKeys(last.after)
              = [i \in 1..Len(LastFields) |-> CanonicalKey(last.kind, LastFields[i].k)]
    /\ (last.op = "setattr" /\ ~last.raised) =>
          DocKeys(last.after)
              = AppendNew(DocKeys(last.before), CanonicalKey(last.kind, last.name))

\* C13's case: Table(context=..., url=..., dcterms_title=...) made a table
\* whose document begins with url, and a later write of id went last.
C13_Witness ==
    /\ last.op = "setattr"
    /\ last.name = <<"id">>
    /\ ~last.raised
    /\ DocKeys(last.before) = <<<<"url">>, <<"@", "context">>, <<"dcterms", ":", "title">>>>
    /\ DocKeys(root) = <<<<"url">>, <<"@", "context">>, <<"dcterms", ":", "title">>,
                         <<"@", "id">>>>

LastBase == Get(last.value.data, <<"base">>)

LastLanguage == Get(last.value.data, <<"language">>)

\* The form of a context value: the bare namespace reference when it has
\* neither a base nor a language, else the reference and an options record
\* with @base and @language as it has them.
HasContextForm(ctx, hasBase, hasLanguage) ==
    /\ ctx.kind = "Context"
    /\ LET c == json_default(ctx)
       IN  IF ~(hasBase \/ hasLanguage)
           THEN c = Str(CsvwNs)
           ELSE /\ c.kind = "list"
                /\ Len(c.items) = 2
                /\ c.items[1] = Str(CsvwNs)
                /\ c.items[2].kind = "dict"
                /\ Keys(c.items[2].data)
                      = {k \in {<<"@", "base">>} : hasBase}
                        \cup {k \in {<<"@", "language">>} : hasLanguage}
                /\ hasBase => Get(c.items[2].data, <<"@", "base">>) = LastBase
                /\ hasLanguage => Get(c.items[2].data, <<"@", "language">>) = LastLanguage

\* add_context stored a value under @context, changed nothing else of the
\* store and returned the node.
StoredContext ==
    /\ ~last.raised
    /\ Has(last.after.data, <<"@", "context">>)
    /\ last.after.data
          = Put(last.before.data, <<"@", "context">>, Get(last.after.data, <<"@", "context">>))
    /\ last.ret = last.after

\* C14 (as amended): add_context(base, language) stores under @context the
\* bare namespace reference when neither a non-empty base nor a non-empty
\* language is given, else the sequence [reference, options] whose options
\* hold @base exactly when the base is a non-empty string and @language
\* exactly when the language is a non-empty string, and returns the node.
C14_ContextForm ==
    last.op = "add_context" =>
        /\ StoredContext
        /\ HasContextForm(Get(last.after.data, <<"@", "context">>),
                          Truthy(LastBase), Truthy(LastLanguage))

\* C14 (as claimed): ... @base exactly when a base was given and @language
\* exactly when a language was given.
C14_ContextFormOfGiven ==
    last.op = "add_context" =>
        /\ StoredContext
        /\ HasContextForm(Get(last.after.data, <<"@", "context">>),
                          LastBase # NoneV, LastLanguage # NoneV)

\* C14's case: add_context with an empty base and a language, on a table that
\* had a context with a base, stored the options with @language alone.
C14_Witness ==
    /\ last.op = "add_context"
    /\ last.kind = "Table"
    /\ LastBase = Str(<<>>)
    /\ LastLanguage = W("en")
    /\ Has(last.before.data, <<"@", "context">>)
    /\ json_default(Get(root.data, <<"@", "context">>))
          = List(<<Str(CsvwNs), Dict(<<Entry(<<"@", "language">>, W("en"))>>)>>)

IsColumnsAssignment ==
    last.op = "setattr" /\ last.kind = "Schema" /\ last.name = <<"columns">>

\* C15: an assignment to Schema.columns raises exactly when the value is not
\* a list or the list itself has two entries with the same name (an entry
\* without a name counts for nothing), whatever columns the schema held
\* before and also when it held none; an accepted list is the one stored.
C15_ColumnsAssignment ==
    IsColumnsAssignment =>
        /\ last.raised <=> \/ last.value.kind # "list"
                           \/ HasDuplicates(ColumnNames(last.value.items))
        /\ ~last.raised => GetItem(last.after, <<"columns">>) = Ok(last.value)

\* C15's case: a schema that held a list with a name twice accepted a list of
\* two distinct names.
C15_Witness ==
    /\ IsColumnsAssignment
    /\ HasDuplicates(ColumnNames(ColumnsOf(last.before)))
    /\ Len(ColumnNames(last.value.items)) = 2
    /\ ~last.raised

\* The entries of a schema's store other than its columns.
OtherEntries(schema) == SelectSeq(schema.data, LAMBDA e : e.k # <<"columns">>)

\* C16: Table.add_column makes a schema only when the table has none; a call
\* that succeeds leaves the schema's columns as they were with one column of
\* the call's fields after them, leaves every other property of the schema
\* with its value, and returns the table.
C16_TableAddColumn ==
    (last.op = "add_column" /\ last.kind = "Table") =>
        /\ CreatesSchema(last.before) => ~HasSchema(last.before)
        /\ ~last.raised =>
              /\ HasSchema(last.after)
              /\ ColumnsUnder(last.after)
                    = Append(ColumnsUnder(last.before),
                             Construct("Column", last.value.data).node)
              /\ HasSchema(last.before) =>
                    OtherEntries(TheSchema(last.after)) = OtherEntries(TheSchema(last.before))
              /\ last.after.kind = "Table"
              /\ last.ret = last.after

====
